---- MODULE Spec2Model ----
(***************************************************************************)
(* A model of scripts/SDFScanMatcher.py: the Gauss-Newton scan-to-map      *)
(* alignment of SDFScanMatcher.AddScan with its helpers GetCauchyWeights   *)
(* and GetResidualAndJacobian.                                             *)
(*                                                                         *)
(* Numbers.  A float64 is modelled as an exact rational <<n, d>> in lowest *)
(* terms with d > 0, or as NaN == <<0, 0>>.  NaN is absorbing in every     *)
(* arithmetic operation and every comparison with it is FALSE, as in IEEE  *)
(* 754.  Rounding is not modelled.                                         *)
(*                                                                         *)
(* Arrays.  A numpy 2-d array is a record [nr, nc, e] with e[i][j] the     *)
(* entry in row i, column j (1-based).                                     *)
(*                                                                         *)
(* Platform.  The module is modelled as it runs on the interpreter and     *)
(* numpy it was written for: the print statements format their arguments   *)
(* and have no effect on the state, and a one-element array is accepted    *)
(* where a float is expected (math.cos, the rows of delta_P_mat).          *)
(***************************************************************************)
EXTENDS Integers, Sequences, FiniteSets, TLC

(***************************************************************************)
(* float64 arithmetic                                                      *)
(***************************************************************************)
NaN == <<0, 0>>

IsNaN(x) == x[2] = 0

IAbs(n) == IF n < 0 THEN -n ELSE n

RECURSIVE GCD(_, _)
GCD(a, b) == IF b = 0 THEN a ELSE GCD(b, a % b)

\* The float with value n/d; 0/0 is NaN.  (x/0 with x # 0 would be an
\* infinity: the program never forms one, see NormRange.)
Rat(n, d) ==
    IF d = 0 THEN NaN
    ELSE LET g == GCD(IAbs(n), IAbs(d))
             s == IF d < 0 THEN -1 ELSE 1
         IN  <<(s * n) \div g, (s * d) \div g>>

Num(n) == <<n, 1>>

Zero == Num(0)

One == Num(1)

RAdd(a, b) ==
    IF IsNaN(a) \/ IsNaN(b) THEN NaN
    ELSE IF a[1] = 0 THEN b
    ELSE IF b[1] = 0 THEN a
    ELSE LET g == GCD(a[2], b[2])
         IN  Rat(a[1] * (b[2] \div g) + b[1] * (a[2] \div g), (a[2] \div g) * b[2])

RNeg(a) == IF IsNaN(a) THEN NaN ELSE <<-a[1], a[2]>>

RSub(a, b) == RAdd(a, RNeg(b))

RMul(a, b) ==
    IF IsNaN(a) \/ IsNaN(b) THEN NaN
    ELSE IF a[1] = 0 \/ b[1] = 0 THEN Zero
    ELSE IF a[2] = 1 /\ b[2] = 1 THEN <<a[1] * b[1], 1>>
    ELSE LET g == GCD(IAbs(a[1]), b[2])
             h == GCD(IAbs(b[1]), a[2])
         IN  <<(a[1] \div g) * (b[1] \div h), (a[2] \div h) * (b[2] \div g)>>

RDiv(a, b) ==
    IF IsNaN(a) \/ IsNaN(b) THEN NaN
    ELSE Rat(a[1] * b[2], a[2] * b[1])

RAbs(a) == IF IsNaN(a) THEN NaN ELSE <<IAbs(a[1]), a[2]>>

\* a < b and a > b; FALSE when either side is NaN.
RLt(a, b) ==
    /\ ~IsNaN(a)
    /\ ~IsNaN(b)
    /\ LET g == GCD(a[2], b[2]) IN a[1] * (b[2] \div g) < b[1] * (a[2] \div g)

RGt(a, b) == RLt(b, a)

\* floor of the square root of a natural number
ISqrt(n) == CHOOSE k \in 0..n : k * k <= n /\ n < (k + 1) * (k + 1)

\* sqrt, exact when numerator and denominator are perfect squares (true of
\* every squared range the model's scan endpoints produce).
RSqrt(a) == IF IsNaN(a) THEN NaN ELSE Rat(ISqrt(a[1]), ISqrt(a[2]))

\* math.cos and math.sin, by their Maclaurin series cut after the second
\* term: exact at 0, where cos = 1 and sin = 0.  Every step the model's
\* inputs produce has delta_P[2] = 0 or NaN.
Cos(x) == RSub(One, RDiv(RMul(x, x), Num(2)))

Sin(x) == RSub(x, RDiv(RMul(x, RMul(x, x)), Num(6)))

(***************************************************************************)
(* numpy arrays                                                            *)
(***************************************************************************)
Mat(rows, ncols) == [nr |-> Len(rows), nc |-> ncols, e |-> rows]

\* the sequence <<F(1), ..., F(n)>>, as a tuple of values
SeqOf(n, F(_)) == [i \in 1..n |-> F(i)] \o << >>

\* the nr x nc array with entry F(i, j) in row i, column j
MatOf(nr, nc, F(_, _)) ==
    [nr |-> nr, nc |-> nc,
     e |-> SeqOf(nr, LAMBDA i : SeqOf(nc, LAMBDA j : F(i, j)))]

\* np.zeros((nr, nc))
Zeros(nr, nc) == MatOf(nr, nc, LAMBDA i, j : Zero)

\* np.identity(n)
Identity(n) == MatOf(n, n, LAMBDA i, j : IF i = j THEN One ELSE Zero)

\* A.T
Transpose(A) == MatOf(A.nc, A.nr, LAMBDA i, j : A.e[j][i])

\* the sum of the first k terms of a sequence, left to right; an empty sum
\* is 0.0
RECURSIVE SumSeq(_, _)
SumSeq(s, k) == IF k = 0 THEN Zero ELSE RAdd(SumSeq(s, k - 1), s[k])

SumOf(n, F(_)) == SumSeq(SeqOf(n, F), n)

\* np.dot(A, B) of two 2-d arrays
Dot(A, B) ==
    MatOf(A.nr, B.nc, LAMBDA i, j : SumOf(A.nc, LAMBDA k : RMul(A.e[i][k], B.e[k][j])))

Entries(A) == {A.e[i][j] : i \in 1..A.nr, j \in 1..A.nc}

HasNaN(A) == \E x \in Entries(A) : IsNaN(x)

\* determinant of a 3x3 array
Det3(A) ==
    LET a(i, j) == A.e[i][j]
        m(p, q, r, s) == RSub(RMul(p, s), RMul(q, r))
    IN  RAdd(RSub(RMul(a(1, 1), m(a(2, 2), a(2, 3), a(3, 2), a(3, 3))),
                  RMul(a(1, 2), m(a(2, 1), a(2, 3), a(3, 1), a(3, 3)))),
             RMul(a(1, 3), m(a(2, 1), a(2, 2), a(3, 1), a(3, 2))))

\* a variant: an inverse that never raises
InvNeverRaises(A) == FALSE

\* np.linalg.inv raises LinAlgError("Singular matrix") for a singular array.
\* An array holding NaN is not reported singular: its inverse is all NaN.
InvRaises(A) == ~HasNaN(A) /\ Det3(A) = Zero

\* np.linalg.inv of a 3x3 array for which it does not raise: the adjugate
\* over the determinant
Inv3(A) ==
    LET a(i, j) == A.e[i][j]
        nx(i) == (i % 3) + 1
        \* cofactor of entry (i, j), by the cyclic rule
        cof(i, j) == RSub(RMul(a(nx(i), nx(j)), a(nx(nx(i)), nx(nx(j)))),
                          RMul(a(nx(i), nx(nx(j))), a(nx(nx(i)), nx(j))))
        d == Det3(A)
        nan == HasNaN(A)
    IN  MatOf(3, 3, LAMBDA i, j : IF nan THEN NaN ELSE RDiv(cof(j, i), d))

(***************************************************************************)
(* The map collaborator (class SDFMap).  Its source is not among the files *)
(* modelled; it is modelled from its interface: a point query that returns *)
(* a defined (value, gradient) for any point, a fusion update that mutates *)
(* the map, and the attribute disc read by AddScan.                        *)
(*                                                                         *)
(* A map is [layout, disc, nfused].  The layout is the field the map       *)
(* holds: straight walls n . p = d with unit axis normals; the signed      *)
(* distance is taken to the nearest wall and truncated at Trunc, beyond    *)
(* which the field is flat (zero gradient).  gsign is the sign convention  *)
(* of the reported gradient.  The layout stands for the contents of the    *)
(* map at the start of a run, however they came about; how fusion changes  *)
(* the field is out of scope: a run keeps its layout and counts the        *)
(* fusions.                                                                *)
(***************************************************************************)
Trunc == Rat(1, 5)

CornerWalls == << [nx |-> 1, ny |-> 0, d |-> 3], [nx |-> 0, ny |-> 1, d |-> 3] >>

Layouts ==
    [corner    |-> [walls |-> CornerWalls, gsign |-> 1],
     cornerNeg |-> [walls |-> CornerWalls, gsign |-> -1]]

LayoutNames == DOMAIN Layouts

\* SDFMap(init_size, discretization, k)
NewMap(layout, discretization) ==
    [layout |-> layout, disc |-> discretization, nfused |-> 0]

\* signed distance of point <<x, y>> to wall w
WallDist(w, pt) == RSub(RAdd(RMul(Num(w.nx), pt[1]), RMul(Num(w.ny), pt[2])), Num(w.d))

\* index of the nearest wall, given the distances (the first of several
\* equally near)
NearestWall(dist) ==
    CHOOSE k \in 1..Len(dist) :
        \A l \in 1..Len(dist) :
            RLt(RAbs(dist[k]), RAbs(dist[l])) \/ (RAbs(dist[k]) = RAbs(dist[l]) /\ k <= l)

\* SDFMap.GetMapValueAndGradient(point) -> <<value, <<gx, gy>>>>
GetMapValueAndGradient(m, pt) ==
    LET lay == Layouts[m.layout]
        flatHere == <<Trunc, <<Zero, Zero>>>>
    IN  IF IsNaN(pt[1]) \/ IsNaN(pt[2]) THEN flatHere
        ELSE LET dist == SeqOf(Len(lay.walls), LAMBDA k : WallDist(lay.walls[k], pt))
                 k == NearestWall(dist)
                 w == lay.walls[k]
                 v == dist[k]
             IN  IF RGt(v, Trunc) THEN flatHere
                 ELSE IF RLt(v, RNeg(Trunc)) THEN <<RNeg(Trunc), <<Zero, Zero>>>>
                 ELSE <<v, <<Num(lay.gsign * w.nx), Num(lay.gsign * w.ny)>>>>

\* SDFMap.UpdateMap(scan, pose): the map records that one more scan was fused.
UpdateMap(m, scan, pose) == [m EXCEPT !.nfused = @ + 1]

(***************************************************************************)
(* SDFScanMatcher.GetCauchyWeights                                         *)
(***************************************************************************)
\* the estimator width passed at both call sites (0.05)
CauchyScale == Rat(1, 20)

\* initial min_range, 1.0e4
MinRangeInit == 10000

\* np.linalg.norm(endpoint[:2])
Range(scan, i) ==
    RSqrt(RAdd(RMul(scan.e[i][1], scan.e[i][1]), RMul(scan.e[i][2], scan.e[i][2])))

\* the loop over endpoints keeping the smallest range seen, from 1.0e4
RECURSIVE MinRange(_, _)
MinRange(scan, n) ==
    IF n = 0 THEN Num(MinRangeInit)
    ELSE LET prev == MinRange(scan, n - 1)
             r == Range(scan, n)
         IN  IF RLt(r, prev) THEN r ELSE prev

\* the loop over endpoints keeping the largest range seen, from 0
RECURSIVE MaxRange(_, _)
MaxRange(scan, n) ==
    IF n = 0 THEN Zero
    ELSE LET prev == MaxRange(scan, n - 1)
             r == Range(scan, n)
         IN  IF RGt(r, prev) THEN r ELSE prev

\* norm_r = ((r - min_range) / (max_range - min_range)) + 1.0, with no guard:
\* a float division 0.0 / 0.0 is NaN.  min_range <= r <= max_range, so the
\* numerator is 0 whenever the denominator is.
NormRange(r, minR, maxR) == RAdd(RDiv(RSub(r, minR), RSub(maxR, minR)), One)

\* 1.0 / (1.0 + residual**2 * c) with c = 1.0 / a**2
CauchyWeight(res, a) ==
    RDiv(One, RAdd(One, RMul(RMul(res, res), RDiv(One, RMul(a, a)))))

\* W as returned: the diagonal holds the Cauchy weight over norm_r.
GetCauchyWeights(scan, residuals, a) ==
    LET n == residuals.nr
        minR == MinRange(scan, scan.nr)
        maxR == MaxRange(scan, scan.nr)
        diag == SeqOf(n, LAMBDA i :
                    RDiv(CauchyWeight(residuals.e[i][1], a),
                         NormRange(Range(scan, i), minR, maxR)))
    IN  MatOf(n, n, LAMBDA i, j : IF i = j THEN diag[i] ELSE Zero)

(***************************************************************************)
(* SDFScanMatcher.GetResidualAndJacobian                                   *)
(***************************************************************************)
\* dR, the rearranged rotation block
RotDerivative(pose) ==
    Mat(<< <<pose.e[1][2], RNeg(pose.e[1][1])>>,
           <<pose.e[1][1], pose.e[1][2]>> >>, 2)

\* partial = [ I | dR . p ] for the local endpoint p of row idx
PosePartial(scan, dR, idx) ==
    LET p == Mat(<< <<scan.e[idx][1]>>, <<scan.e[idx][2]>> >>, 1)
        rot == Dot(dR, p)
    IN  Mat(<< <<One, Zero, rot.e[1][1]>>, <<Zero, One, rot.e[2][1]>> >>, 3)

GetResidualAndJacobian(m, scan, pose) ==
    LET gf_scan == Dot(scan, Transpose(pose))
        dR == RotDerivative(pose)
        \* res, grad of every scan_idx
        q == SeqOf(scan.nr, LAMBDA idx :
                 GetMapValueAndGradient(m, <<gf_scan.e[idx][1], gf_scan.e[idx][2]>>))
    IN  [r |-> [nr |-> scan.nr, nc |-> 1, e |-> SeqOf(scan.nr, LAMBDA idx : <<q[idx][1]>>)],
         J |-> [nr |-> scan.nr, nc |-> 3,
                e |-> SeqOf(scan.nr, LAMBDA idx :
                          Dot(Mat(<< q[idx][2] >>, 2), PosePartial(scan, dR, idx)).e[1])],
         grads |-> [nr |-> scan.nr, nc |-> 2, e |-> SeqOf(scan.nr, LAMBDA idx : q[idx][2])]]

(***************************************************************************)
(* Bounds and inputs                                                       *)
(***************************************************************************)
\* number of AddScan calls in a run
MaxCalls == 1

\* largest max_iter a caller passes
MaxIter == 2

\* the estimators constructed
Instances == {1, 2}

\* a scan: one homogeneous endpoint <<x, y, 1>> per row
ScanOf(pts) == [nr |-> Len(pts), nc |-> 3, e |-> SeqOf(Len(pts), LAMBDA i : <<Num(pts[i][1]), Num(pts[i][2]), One>>)]

Scans ==
    { ScanOf(<< >>),                                \* no endpoint
      ScanOf(<< <<0, 0>> >>),                       \* one endpoint, in flat space
      ScanOf(<< <<3, 0>>, <<3, 4>> >>),             \* two endpoints on one wall
      ScanOf(<< <<3, 0>>, <<3, 4>>, <<0, 3>> >>),   \* both walls
      ScanOf(<< <<3, 0>>, <<3, -4>>, <<4, 3>> >>),  \* both walls, other side
      ScanOf(<< <<0, -3>>, <<4, -3>>, <<3, 0>> >>), \* both walls after a quarter turn
      ScanOf(<< <<3, 0>>, <<0, 3>>, <<-3, 0>> >>),  \* all ranges equal
      ScanOf(<< <<1, 0>>, <<0, 2>>, <<-1, 0>> >>) } \* all in flat space

\* the transform translating by (tx, ty)
Translation(tx, ty) ==
    Mat(<< <<One, Zero, tx>>, <<Zero, One, ty>>, <<Zero, Zero, One>> >>, 3)

\* the transform turning by 90 degrees and translating by (tx, ty)
QuarterTurn(tx, ty) ==
    Mat(<< <<Zero, Num(-1), tx>>, <<One, Zero, ty>>, <<Zero, Zero, One>> >>, 3)

\* an optional array argument: left out by the caller, or given
Omitted == [given |-> FALSE, array |-> Zeros(0, 0)]

Given(a) == [given |-> TRUE, array |-> a]

GuessArgs ==
    { Omitted,
      Given(Translation(Rat(1, 20), Rat(3, 20))),
      Given(QuarterTurn(Rat(1, 20), Rat(3, 20))) }

MinDErrs == {Rat(1, 100), Rat(1, 100000)}

\* the discretization the estimators are constructed with (1.0; a caller
\* that leaves it out gets 0.5)
Discretization == One

\* d_err before the first iteration, 1.0e4
InitialDErr == 10000

(***************************************************************************)
(* State                                                                   *)
(*                                                                         *)
(* heap maps every array object to its contents; pose[i] is the object     *)
(* that self.pose of estimator i refers to; map[i] is its SDFMap.  The     *)
(* frame of the AddScan call in progress is pc, self, the arguments and    *)
(* the locals.  calls, entry, deltas, starts, solved, errors, writes and   *)
(* fusions are history: what the call in progress started from and did     *)
(* (starts: the residual, Jacobian, d_err and count each loop body started *)
(* with; solved: the matrix each body inverted; deltas: each delta_P_mat;  *)
(* errors: the initial and every new error).                               *)
(***************************************************************************)
VARIABLES heap, pose, map,
          pc, self, scan, guess, max_iter, min_d_err,
          d_err, num_iter, est_pose, vals, J, grads, W, err, raised,
          calls, entry, deltas, starts, solved, errors, writes, fusions

frame == <<pc, self, scan, guess, max_iter, min_d_err,
           d_err, num_iter, est_pose, vals, J, grads, W, err, raised>>

history == <<calls, entry, deltas, starts, solved, errors, writes, fusions>>

vars == <<heap, pose, map, frame, history>>

\* the array np.identity(3) built once, when the def statement of __init__
\* runs, and bound to init_pose in every construction that omits it
InitDefault == <<"init_pose", 0>>

\* likewise the default of AddScan's pose_delta_guess
GuessDefault == <<"pose_delta_guess", 0>>

\* the array np.dot returns for est_pose / new_pose in the k-th call
PoseObj(k) == <<"pose", k>>

Objects == {InitDefault, GuessDefault} \cup {PoseObj(k) : k \in 1..MaxCalls}

PoseOf(i) == heap[pose[i]]

NoArray == Zeros(0, 0)

\* entry of a call: every estimator's pose and map, the first estimate and its
\* error, and the scan passed
NoEntry == [poses |-> [j \in Instances |-> NoArray],
            maps |-> [j \in Instances |-> NewMap("corner", Zero)],
            est |-> NoArray, err |-> Zero, scan |-> NoArray]

\* SDFScanMatcher() for every estimator: self.map = SDFMap(...) and
\* self.pose = init_pose, the shared default.  The maps hold the same field.
Init ==
    /\ heap = [o \in Objects |-> IF o \in {InitDefault, GuessDefault} THEN Identity(3) ELSE NoArray]
    /\ pose = [i \in Instances |-> InitDefault]
    /\ \E lay \in LayoutNames : map = [i \in Instances |-> NewMap(lay, Discretization)]
    /\ pc = "idle"
    /\ self = 0
    /\ scan = NoArray
    /\ guess = NoArray
    /\ max_iter = 0
    /\ min_d_err = Zero
    /\ d_err = Zero
    /\ num_iter = 0
    /\ est_pose = NoArray
    /\ vals = NoArray
    /\ J = NoArray
    /\ grads = NoArray
    /\ W = NoArray
    /\ err = Zero
    /\ raised = "none"
    /\ calls = [i \in Instances |-> 0]
    /\ entry = NoEntry
    /\ deltas = << >>
    /\ starts = << >>
    /\ solved = << >>
    /\ errors = << >>
    /\ writes = 0
    /\ fusions = << >>

(***************************************************************************)
(* SDFScanMatcher.AddScan                                                  *)
(***************************************************************************)
\* calls made so far, on either estimator
NumCalls == calls[1] + calls[2]

\* np.dot(np.dot(vals.T, W), vals)[0, 0]
WeightedError(v, w) == Dot(Dot(Transpose(v), w), v).e[1][1]

\* np.max(J) of a non-empty array: NaN if any entry is
MaxEntry(A) ==
    IF HasNaN(A) THEN NaN
    ELSE CHOOSE x \in Entries(A) : \A y \in Entries(A) : ~RLt(x, y)

\* a variant: a while condition without the iteration budget
LoopTestNoBudget(n, maxit, derr, minderr, jac) ==
    IF ~RGt(RAbs(derr), minderr) THEN "exit"
    ELSE IF jac.nr = 0 THEN "ValueError"
    ELSE IF RGt(MaxEntry(jac), Zero) THEN "body"
    ELSE "exit"

\* a variant: a while condition without the gradient guard
LoopTestNoGradientGuard(n, maxit, derr, minderr, jac) ==
    IF ~(n < maxit) THEN "exit"
    ELSE IF ~RGt(RAbs(derr), minderr) THEN "exit"
    ELSE "body"

\* the while condition, evaluated left to right with short-circuit `and`:
\* "body", "exit", or "ValueError" (np.max of a zero-size array)
LoopTest(n, maxit, derr, minderr, jac) ==
    IF ~(n < maxit) THEN "exit"
    ELSE IF ~RGt(RAbs(derr), minderr) THEN "exit"
    ELSE IF jac.nr = 0 THEN "ValueError"
    ELSE IF RGt(MaxEntry(jac), Zero) THEN "body"
    ELSE "exit"

\* The call up to the first evaluation of the while condition, for estimator
\* i, scan s and guess argument g; max_iter and min_d_err are the caller's too.
AddScanEnter(i, s, g) ==
    /\ pc = "idle"
    /\ NumCalls < MaxCalls
    /\ LET guessArr == IF g.given THEN g.array ELSE heap[GuessDefault]
           est == Dot(PoseOf(i), guessArr)
           rj == GetResidualAndJacobian(map[i], s, est)
           w == GetCauchyWeights(s, rj.r, CauchyScale)
           e0 == WeightedError(rj.r, w)
       IN  /\ pc' = "while"
           /\ self' = i
           /\ scan' = s
           /\ guess' = guessArr
           /\ max_iter' \in 0..MaxIter
           /\ min_d_err' \in MinDErrs
           /\ d_err' = Num(InitialDErr)
           /\ num_iter' = 0
           /\ est_pose' = est
           /\ vals' = rj.r
           /\ J' = rj.J
           /\ grads' = rj.grads
           /\ W' = w
           /\ err' = e0
           /\ raised' = "none"
           /\ calls' = [calls EXCEPT ![i] = @ + 1]
           /\ entry' = [poses |-> [j \in Instances |-> PoseOf(j)], maps |-> map,
                        est |-> est, err |-> e0, scan |-> s]
           /\ deltas' = << >>
           /\ starts' = << >>
           /\ solved' = << >>
           /\ errors' = <<e0>>
           /\ writes' = 0
           /\ fusions' = << >>
           /\ UNCHANGED <<heap, pose, map>>

\* delta_P_mat
DeltaTransform(dp, disc) ==
    LET th == dp.e[3][1]
    IN  Mat(<< <<Cos(th), RNeg(Sin(th)), RMul(dp.e[1][1], disc)>>,
               <<Sin(th), Cos(th), RMul(dp.e[2][1], disc)>>,
               <<Zero, Zero, One>> >>, 3)

\* W of this iteration: from the residual the iteration starts with
IterationWeights(s, startVals) == GetCauchyWeights(s, startVals, CauchyScale)

\* a variant: a new error under weights recomputed from the new residual
NewErrorFreshWeights(newVals, iterW, s) ==
    WeightedError(newVals, GetCauchyWeights(s, newVals, CauchyScale))

\* new_err[0, 0]: the new residual under the W of this iteration
NewError(newVals, iterW, s) == WeightedError(newVals, iterW)

\* a variant: the commented-out rejection, which keeps the old estimate when the error grew
RejectingEstimate(old, new, derr) == IF RLt(derr, Zero) THEN old ELSE new

\* est_pose = new_pose, whatever d_err is (the rejection branch is commented
\* out)
AcceptedEstimate(old, new, derr) == new

\* W, J_t_W, np.dot(J_t_W, J) and, unless inv raises, delta_P
Solve(s, v, jac) ==
    LET w == IterationWeights(s, v)
        J_t_W == Dot(Transpose(jac), w)
        A == Dot(J_t_W, jac)
        raises == InvRaises(A)
    IN  [W |-> w, A |-> A, raises |-> raises,
         delta_P |-> IF raises THEN NoArray ELSE Dot(Inv3(A), Dot(J_t_W, v))]

\* np.linalg.inv raises: the exception leaves AddScan from inside the loop.
RaiseLinAlgError(st) ==
    /\ pc' = "raised"
    /\ raised' = "LinAlgError"
    /\ W' = st.W
    /\ starts' = Append(starts, [vals |-> vals, J |-> J, d_err |-> d_err, num_iter |-> num_iter])
    /\ solved' = Append(solved, st.A)
    /\ UNCHANGED <<heap, pose, map, self, scan, guess, max_iter, min_d_err, d_err,
                   num_iter, est_pose, vals, J, grads, err, calls, entry, deltas,
                   errors, writes, fusions>>

\* the rest of the loop body, back to the while condition
TakeStep(st) ==
    LET delta_P_mat == DeltaTransform(st.delta_P, map[self].disc)
        new_pose == Dot(est_pose, delta_P_mat)
        rj == GetResidualAndJacobian(map[self], scan, new_pose)
        new_err == NewError(rj.r, st.W, scan)
        derr == RSub(err, new_err)
    IN  /\ W' = st.W
        /\ vals' = rj.r
        /\ J' = rj.J
        /\ grads' = rj.grads
        /\ d_err' = derr
        /\ est_pose' = AcceptedEstimate(est_pose, new_pose, derr)
        /\ err' = new_err
        /\ num_iter' = num_iter + 1
        /\ deltas' = Append(deltas, delta_P_mat)
        /\ starts' = Append(starts, [vals |-> vals, J |-> J, d_err |-> d_err, num_iter |-> num_iter])
        /\ solved' = Append(solved, st.A)
        /\ errors' = Append(errors, new_err)
        /\ UNCHANGED <<heap, pose, map, pc, self, scan, guess, max_iter, min_d_err,
                       raised, calls, entry, writes, fusions>>

\* One execution of the loop body.
Iterate ==
    /\ pc = "while"
    /\ LoopTest(num_iter, max_iter, d_err, min_d_err, J) = "body"
    /\ LET st == Solve(scan, vals, J)
       IN  IF st.raises THEN RaiseLinAlgError(st) ELSE TakeStep(st)

\* The while condition itself raises.
LoopTestRaise ==
    /\ pc = "while"
    /\ LoopTest(num_iter, max_iter, d_err, min_d_err, J) = "ValueError"
    /\ pc' = "raised"
    /\ raised' = "ValueError"
    /\ UNCHANGED <<heap, pose, map, self, scan, guess, max_iter, min_d_err, d_err,
                   num_iter, est_pose, vals, J, grads, W, err, history>>

\* a variant: a pose store that writes the contents of the array self.pose refers to
StorePoseInPlace(h, p, i, obj, est) == [heap |-> [h EXCEPT ![p[i]] = est], pose |-> p]

\* self.pose = est_pose: the attribute is rebound to the array est_pose
\* names (obj, fresh from np.dot); no array is written.
StorePose(h, p, i, obj, est) ==
    [heap |-> [h EXCEPT ![obj] = est], pose |-> [p EXCEPT ![i] = obj]]

\* a variant: a commit that is skipped when the error grew over the call
CommitPoseIfImproved ==
    /\ pc = "while"
    /\ LoopTest(num_iter, max_iter, d_err, min_d_err, J) = "exit"
    /\ LET st == IF RGt(err, entry.err) THEN [heap |-> heap, pose |-> pose]
                 ELSE StorePose(heap, pose, self, PoseObj(NumCalls), est_pose)
       IN  /\ heap' = st.heap
           /\ pose' = st.pose
    /\ writes' = IF RGt(err, entry.err) THEN writes ELSE writes + 1
    /\ pc' = "update"
    /\ UNCHANGED <<map, self, scan, guess, max_iter, min_d_err, d_err, num_iter,
                   est_pose, vals, J, grads, W, err, raised, calls, entry, deltas,
                   starts, solved, errors, fusions>>

\* The while condition is false: self.pose = est_pose.
CommitPose ==
    /\ pc = "while"
    /\ LoopTest(num_iter, max_iter, d_err, min_d_err, J) = "exit"
    /\ LET st == StorePose(heap, pose, self, PoseObj(NumCalls), est_pose)
       IN  /\ heap' = st.heap
           /\ pose' = st.pose
    /\ writes' = writes + 1
    /\ pc' = "update"
    /\ UNCHANGED <<map, self, scan, guess, max_iter, min_d_err, d_err, num_iter,
                   est_pose, vals, J, grads, W, err, raised, calls, entry, deltas,
                   starts, solved, errors, fusions>>

\* self.map.UpdateMap(scan, self.pose)
FuseScan ==
    /\ pc = "update"
    /\ map' = [map EXCEPT ![self] = UpdateMap(@, scan, PoseOf(self))]
    /\ fusions' = Append(fusions, [scan |-> scan, pose |-> PoseOf(self)])
    /\ pc' = "returned"
    /\ UNCHANGED <<heap, pose, self, scan, guess, max_iter, min_d_err, d_err, num_iter,
                   est_pose, vals, J, grads, W, err, raised, calls, entry, deltas,
                   starts, solved, errors, writes>>

\* The call is over, by return or by the exception reaching the caller; the
\* frame is gone.
Return ==
    /\ pc \in {"returned", "raised"}
    /\ pc' = "idle"
    /\ self' = 0
    /\ scan' = NoArray
    /\ guess' = NoArray
    /\ max_iter' = 0
    /\ min_d_err' = Zero
    /\ d_err' = Zero
    /\ num_iter' = 0
    /\ est_pose' = NoArray
    /\ vals' = NoArray
    /\ J' = NoArray
    /\ grads' = NoArray
    /\ W' = NoArray
    /\ err' = Zero
    /\ raised' = "none"
    /\ entry' = NoEntry
    /\ deltas' = << >>
    /\ starts' = << >>
    /\ solved' = << >>
    /\ errors' = << >>
    /\ writes' = 0
    /\ fusions' = << >>
    /\ UNCHANGED <<heap, pose, map, calls>>

Next ==
    \/ \E i \in Instances, s \in Scans, g \in GuessArgs : AddScanEnter(i, s, g)
    \/ Iterate
    \/ LoopTestRaise
    \/ CommitPose
    \/ FuseScan
    \/ Return

Spec == Init /\ [][Next]_vars

(***************************************************************************)
(* Properties                                                              *)
(***************************************************************************)
InCall == pc # "idle"

\* A has no inverse
NotInvertible(A) == ~HasNaN(A) /\ Det3(A) = Zero

AllZero(A) == \A x \in Entries(A) : x = Zero

\* base . ds[1] . ds[2] ...
RECURSIVE ComposeAll(_, _)
ComposeAll(base, ds) ==
    IF Len(ds) = 0 THEN base
    ELSE Dot(ComposeAll(base, SubSeq(ds, 1, Len(ds) - 1)), ds[Len(ds)])

EqualRanges(s) == s.nr >= 1 /\ MinRange(s, s.nr) = MaxRange(s, s.nr)

\* the while condition's third conjunct, np.max(J) > 0.0
GradientGuard(jac) == jac.nr > 0 /\ ~HasNaN(jac) /\ \E x \in Entries(jac) : RGt(x, Zero)

\* C1: whenever the matrix J^T W J an iteration forms is not invertible, that
\* iteration is the call's last: the call ends with the numerical error
\* LinAlgError, the stored pose and the map are what they were at entry, and
\* no pose write and no fusion has happened -- in the first iteration or
\* after accepted steps.
C1_SingularAbortsCall ==
    \A k \in 1..Len(solved) :
        NotInvertible(solved[k]) =>
            /\ k = Len(solved)
            /\ num_iter = k - 1
            /\ pc = "raised"
            /\ raised = "LinAlgError"
            /\ PoseOf(self) = entry.poses[self]
            /\ map[self] = entry.maps[self]
            /\ writes = 0
            /\ fusions = << >>

\* C1 witness: a call aborted by a singular matrix after an accepted step.
C1_Witness ==
    /\ pc = "raised"
    /\ raised = "LinAlgError"
    /\ num_iter >= 1
    /\ NotInvertible(solved[Len(solved)])
    /\ est_pose # entry.est

\* C2: a call whose scan has fewer than 3 points fails with
\* DegenerateInputError before any inversion is attempted and never writes
\* the pose or the map.
C2_FewPointsRejected ==
    (InCall /\ scan.nr < 3) =>
        /\ solved = << >>
        /\ writes = 0
        /\ fusions = << >>
        /\ pc \notin {"update", "returned"}
        /\ (pc = "raised" => raised = "DegenerateInputError")

\* C3: before the loop is left the stored pose is not written and fusion is
\* not invoked; leaving the loop writes the stored pose once, to the final
\* working estimate; then fusion is invoked once, with the original scan and
\* the committed pose.
C3_CommitThenFuse ==
    /\ pc = "while" =>
           /\ writes = 0
           /\ fusions = << >>
           /\ PoseOf(self) = entry.poses[self]
           /\ map[self] = entry.maps[self]
    /\ pc = "update" =>
           /\ writes = 1
           /\ fusions = << >>
           /\ PoseOf(self) = est_pose
           /\ map[self] = entry.maps[self]
    /\ pc = "returned" =>
           /\ writes = 1
           /\ fusions = << [scan |-> entry.scan, pose |-> est_pose] >>
           /\ PoseOf(self) = est_pose
           /\ map[self].nfused = entry.maps[self].nfused + 1

\* C3 witness: a call returned after a step that increased the error,
\* committed and fused all the same.
C3_Witness ==
    /\ pc = "returned"
    /\ num_iter >= 1
    /\ RGt(err, entry.err)
    /\ PoseOf(self) # entry.poses[self]

\* C4: a call starts at most max_iter loop bodies; the k-th body starts with
\* the iteration count at k - 1, below max_iter, with |d_err| above
\* min_d_err and with the gradient guard holding; every completed body
\* raises the count by exactly 1.
C4_BoundedLoop ==
    InCall =>
        /\ num_iter <= max_iter
        /\ Len(starts) <= max_iter
        /\ Len(solved) = Len(starts)
        /\ num_iter = (IF raised = "LinAlgError" THEN Len(starts) - 1 ELSE Len(starts))
        /\ \A k \in 1..Len(starts) :
               /\ starts[k].num_iter = k - 1
               /\ starts[k].num_iter < max_iter
               /\ RGt(RAbs(starts[k].d_err), min_d_err)
               /\ GradientGuard(starts[k].J)

\* C4 witness: the loop left because the budget is used up, while the
\* threshold and the gradient guard would have let it go on.
C4_Witness ==
    /\ pc = "update"
    /\ max_iter >= 1
    /\ num_iter = max_iter
    /\ RGt(RAbs(d_err), min_d_err)
    /\ GradientGuard(J)

\* C5: when the map reports a zero gradient at every point of a non-empty
\* scan under the initial estimate, the call runs no iteration and attempts no
\* inversion, does not fail, and the pose it commits is the stored pose
\* composed with the guess, whatever max_iter and min_d_err are.
C5_ZeroGradientNoIteration ==
    (InCall /\ scan.nr >= 1 /\ num_iter = 0 /\ AllZero(grads)) =>
        /\ solved = << >>
        /\ pc \in {"while", "update", "returned"}
        /\ est_pose = Dot(entry.poses[self], guess)
        /\ (pc \in {"update", "returned"} => PoseOf(self) = Dot(entry.poses[self], guess))

\* C5 witness: a call on a 3-point scan in flat space, with a budget and a
\* guess, returned with no iteration.
C5_Witness ==
    /\ pc = "returned"
    /\ scan.nr >= 3
    /\ AllZero(grads)
    /\ max_iter >= 1
    /\ guess # Identity(3)
    /\ num_iter = 0
    /\ PoseOf(self) = Dot(entry.poses[self], guess)

\* C6: when all points of the scan have the same range, the weights are
\* finite and well defined.
C6_EqualRangesGuarded == (InCall /\ EqualRanges(scan)) => ~HasNaN(W)

\* C7: every step is accepted: the working estimate is the initial estimate
\* composed with every delta computed so far, the error is the newest one,
\* and d_err is the previous error minus the new one, whatever its sign.
C7_NoStepRejection ==
    InCall =>
        /\ Len(deltas) = num_iter
        /\ Len(errors) = num_iter + 1
        /\ est_pose = ComposeAll(entry.est, deltas)
        /\ err = errors[num_iter + 1]
        /\ (num_iter >= 1 => d_err = RSub(errors[num_iter], errors[num_iter + 1]))

\* C7 witness: two steps have been taken from a rotated initial estimate,
\* the first of them increased the error, and composing on the left would
\* have given another pose.
C7_Witness ==
    /\ pc = "while"
    /\ num_iter = 2
    /\ ~HasNaN(est_pose)
    /\ RGt(errors[2], errors[1])
    /\ deltas[2] # Identity(3)
    /\ Dot(deltas[1], entry.est) # Dot(entry.est, deltas[1])
    /\ est_pose = Dot(Dot(entry.est, deltas[1]), deltas[2])

\* C8: the weights of an iteration come from the residual it starts with and
\* serve both the solve and the error of the residual at the new pose; they
\* are not recomputed from the new residual inside the iteration.
C8_StaleWeights ==
    (pc \in {"while", "update", "returned"} /\ num_iter >= 1) =>
        LET st == starts[num_iter]
            J_t_W == Dot(Transpose(st.J), W)
        IN  /\ W = GetCauchyWeights(scan, st.vals, CauchyScale)
            /\ solved[num_iter] = Dot(J_t_W, st.J)
            /\ deltas[num_iter] =
                   DeltaTransform(Dot(Inv3(solved[num_iter]), Dot(J_t_W, st.vals)), map[self].disc)
            /\ err = WeightedError(vals, W)

\* C8 witness: after a step, weights from the new residual would differ and
\* would give another error.
C8_Witness ==
    /\ pc = "while"
    /\ num_iter >= 1
    /\ ~HasNaN(W)
    /\ GetCauchyWeights(scan, vals, CauchyScale) # W
    /\ WeightedError(vals, GetCauchyWeights(scan, vals, CauchyScale)) # err

\* C9: the loop is left with budget remaining and |d_err| above the
\* threshold only when every entry of the Jacobian is zero.
C9_GuardExitOnlyWhenFlat ==
    (pc = "update" /\ scan.nr >= 1 /\ num_iter < max_iter /\ RGt(RAbs(d_err), min_d_err)) =>
        AllZero(J)

\* C10: an estimator that has not been called still refers to the default
\* pose it was built on, unchanged; during a call on one estimator every
\* other estimator's stored pose is what it was at entry; and the default
\* init_pose and pose_delta_guess arrays, shared between constructions and
\* between calls, are never written.
C10_InstancesIsolated ==
    /\ heap[InitDefault] = Identity(3)
    /\ heap[GuessDefault] = Identity(3)
    /\ \A j \in Instances : calls[j] = 0 => pose[j] = InitDefault /\ PoseOf(j) = Identity(3)
    /\ InCall => \A j \in Instances \ {self} : PoseOf(j) = entry.poses[j]

\* C10 witness: an estimator built on the shared default has committed
\* another pose while a second estimator still refers to the default.
C10_Witness ==
    /\ pc = "returned"
    /\ entry.poses[self] = Identity(3)
    /\ PoseOf(self) # Identity(3)
    /\ \E j \in Instances \ {self} : pose[j] = InitDefault /\ PoseOf(j) = Identity(3)

====
